---- MODULE Spec2Model ----
(***************************************************************************)
(* io-truncate: the Truncate trait (src/lib.rs) and its five               *)
(* implementations, for File, Vec<u8>, &[u8], Cursor<T> and &mut T.        *)
(*                                                                         *)
(* An object is a tagged record:                                           *)
(*   [kind |-> "vec",    v |-> bytes]              Vec<u8>                 *)
(*   [kind |-> "slice",  ptr |-> p, len |-> l]     &[u8] into `storage`    *)
(*   [kind |-> "file",   data |-> bytes,           File: the bytes a read  *)
(*    size |-> n, resize |-> r]                    returns, the size the   *)
(*                                                 OS reports, and what a  *)
(*                                                 successful resize does  *)
(*                                                 to this kind of file    *)
(*   [kind |-> "cursor", inner |-> T, pos |-> c]   io::Cursor<T>           *)
(*   [kind |-> "ref",    target |-> T]             &mut T                  *)
(* A Result<(), Error> is [ok |-> TRUE] or                                 *)
(* [ok |-> FALSE, kind |-> ErrorKind, msg |-> the formatted arguments].    *)
(***************************************************************************)
EXTENDS Integers, Sequences, FiniteSets

VARIABLES
    storage,    \* the externally owned bytes the borrowed views point into
    other,      \* a second view over the same storage, never truncated
    obj,        \* the object truncate is called on
    orig,       \* the bytes a Vec<u8> or &[u8] was constructed with (history)
    last,       \* the most recent truncate call: receiver before it, argument, result
    pc          \* position inside Cursor<T>::truncate when run statement by statement

vars == <<storage, other, obj, orig, last, pc>>

\* Longest byte sequence the objects are constructed with.
MaxLen == 3

\* Byte values used for the contents (a subset of u8); 0 is the fill byte of a grown file.
Bytes == {0, 1}

Seqs(n) == UNION {[1..k -> Bytes] : k \in 0..n}

\* Arguments of truncate: every length up to one past the longest content.
Lengths == 0..(MaxLen + 1)

(***************************************************************************)
(* Results                                                                 *)
(***************************************************************************)
OkResult == [ok |-> TRUE]

\* Error::new(ErrorKind::InvalidInput, format!("... ({} > {})", new_len, self.len()))
InvalidInputError(new_len, len) ==
    [ok |-> FALSE, kind |-> "InvalidInput", msg |-> <<new_len, len>>]

\* An error made by the platform's resize call, of the kind the platform reports.
PlatformError(k) == [ok |-> FALSE, kind |-> k, msg |-> <<>>]

\* What File::set_len can answer: success, or an io::Error of whatever kind the
\* platform reports.  ErrorKind is an open set and the code never inspects the
\* kind, so these are representatives: a handle not open for writing, a length
\* the platform cannot represent, a size over the process's file size limit
\* (EFBIG, returned when SIGXFSZ is ignored or blocked; see SetLenKilled for
\* the default disposition), a full device, and any kind not named here.
PlatformOutcomes ==
    {"Ok", "PermissionDenied", "InvalidInput", "FileTooLarge", "StorageFull", "Other"}

\* new_len as u64: usize is at most 64 bits wide, so the widening keeps the value.
AsU64(n) == n

\* cmp::min
Min(a, b) == IF b < a THEN b ELSE a

(***************************************************************************)
(* File                                                                    *)
(***************************************************************************)
Zeros(n) == [i \in 1..n |-> 0]

\* What a successful resize does to a file, by the kind of storage behind the
\* handle: "data" -- a regular file: the bytes are cut or zero-extended and the
\* reported size is the new size; "size" -- the reported size becomes the new
\* size and the bytes read stay (tracefs); "none" -- the call is accepted and
\* nothing changes (procfs).
ResizeEffects == {"data", "size", "none"}

\* File::set_len(size): the platform call.  plat is the platform's answer.  On
\* success the file changes as its kind of storage has it; on an error it is
\* left as it was.
SetLen(self, size, plat) ==
    IF plat = "Ok"
    THEN [res  |-> OkResult,
          self |-> CASE self.resize = "data" ->
                           [self EXCEPT !.data =
                                           IF size <= Len(@) THEN SubSeq(@, 1, size)
                                           ELSE @ \o Zeros(size - Len(@)),
                                        !.size = size]
                     [] self.resize = "size" -> [self EXCEPT !.size = size]
                     [] self.resize = "none" -> self]
    ELSE [res |-> PlatformError(plat), self |-> self]

\* Mutant: a shrink-only check in front of the platform call.
FileTruncateChecked(self, new_len, plat) ==
    IF new_len <= self.size
    THEN LET r == SetLen(self, AsU64(new_len), plat)
         IN  [res |-> r.res, self |-> r.self,
              calls |-> <<[size |-> AsU64(new_len), res |-> r.res]>>]
    ELSE [res |-> InvalidInputError(new_len, self.size), self |-> self,
          calls |-> <<>>]

\* <File as Truncate>::truncate.  calls is the log of platform calls made.
FileTruncate(self, new_len, plat) ==
    LET r == SetLen(self, AsU64(new_len), plat)
    IN  [res |-> r.res, self |-> r.self,
         calls |-> <<[size |-> AsU64(new_len), res |-> r.res]>>]

(***************************************************************************)
(* Vec<u8>                                                                 *)
(***************************************************************************)
\* Vec::truncate (the inherent method): keeps the first len elements.
VecInherentTruncate(v, len) == IF len > Len(v) THEN v ELSE SubSeq(v, 1, len)

\* Mutant: the comparison is strict, so truncating to the current length is rejected.
VecTruncateStrict(self, new_len) ==
    IF new_len < Len(self.v)
    THEN [res |-> OkResult,
          self |-> [self EXCEPT !.v = VecInherentTruncate(@, new_len)],
          calls |-> <<>>]
    ELSE [res |-> InvalidInputError(new_len, Len(self.v)), self |-> self,
          calls |-> <<>>]

\* Mutant: a request past the end is answered by Vec::resize, filling with zeros.
VecTruncateExtend(self, new_len) ==
    [res |-> OkResult,
     self |-> [self EXCEPT !.v = IF new_len <= Len(@) THEN SubSeq(@, 1, new_len)
                                 ELSE @ \o Zeros(new_len - Len(@))],
     calls |-> <<>>]

\* <Vec<u8> as Truncate>::truncate
VecTruncate(self, new_len) ==
    IF new_len <= Len(self.v)
    THEN [res |-> OkResult,
          self |-> [self EXCEPT !.v = VecInherentTruncate(@, new_len)],
          calls |-> <<>>]
    ELSE [res |-> InvalidInputError(new_len, Len(self.v)), self |-> self,
          calls |-> <<>>]

(***************************************************************************)
(* &[u8]                                                                   *)
(***************************************************************************)
\* Mutant: the view is rebound to its last new_len bytes instead of its first.
SliceTruncateTail(self, new_len) ==
    IF new_len <= self.len
    THEN [res |-> OkResult,
          self |-> [self EXCEPT !.ptr = @ + (self.len - new_len), !.len = new_len],
          calls |-> <<>>]
    ELSE [res |-> InvalidInputError(new_len, self.len), self |-> self,
          calls |-> <<>>]

\* Mutant: a request past the end is answered by widening the view.
SliceTruncateExtend(self, new_len) ==
    [res |-> OkResult, self |-> [self EXCEPT !.len = new_len], calls |-> <<>>]

\* Mutant: the comparison is strict, so truncating to the current length is rejected.
SliceTruncateStrict(self, new_len) ==
    IF new_len < self.len
    THEN [res |-> OkResult, self |-> [self EXCEPT !.len = new_len], calls |-> <<>>]
    ELSE [res |-> InvalidInputError(new_len, self.len), self |-> self,
          calls |-> <<>>]

\* <&[u8] as Truncate>::truncate: *self = &self[..new_len]
SliceTruncate(self, new_len) ==
    IF new_len <= self.len
    THEN [res |-> OkResult, self |-> [self EXCEPT !.len = new_len], calls |-> <<>>]
    ELSE [res |-> InvalidInputError(new_len, self.len), self |-> self,
          calls |-> <<>>]

(***************************************************************************)
(* Cursor<T>, &mut T and the trait's dispatch                              *)
(***************************************************************************)
RECURSIVE Truncate(_, _, _)
RECURSIVE CursorTruncate(_, _, _)
RECURSIVE RefMutTruncate(_, _, _)

\* Mutant: the cursor is not moved back.
SetPositionKeep(new_len, pos) == pos

\* Mutant: cmp::max in place of cmp::min.
SetPositionMax(new_len, pos) == IF pos < AsU64(new_len) THEN AsU64(new_len) ELSE pos

\* The argument of set_position: cmp::min(new_len as u64, self.position())
SetPosition(new_len, pos) == Min(AsU64(new_len), pos)

\* Mutant: the cursor is clamped before the inner call's result is looked at,
\* and the inner error is replaced by one of the wrapper's own.
CursorTruncateEager(self, new_len, plat) ==
    LET r == Truncate(self.inner, new_len, plat)
    IN  [res   |-> IF r.res.ok THEN OkResult
                   ELSE [ok |-> FALSE, kind |-> "Other", msg |-> <<>>],
         self  |-> [self EXCEPT !.inner = r.self,
                                !.pos = SetPosition(new_len, @)],
         calls |-> r.calls]

\* <Cursor<T> as Truncate>::truncate
CursorTruncate(self, new_len, plat) ==
    LET r == Truncate(self.inner, new_len, plat)
    IN  IF ~r.res.ok
        THEN [res   |-> r.res,
              self  |-> [self EXCEPT !.inner = r.self],
              calls |-> r.calls]
        ELSE [res   |-> OkResult,
              self  |-> [self EXCEPT !.inner = r.self,
                                     !.pos = SetPosition(new_len, @)],
              calls |-> r.calls]

\* Mutant: the reference wrapper applies the shrink-only policy itself.
RECURSIVE Length(_)
RefMutTruncateChecked(self, new_len, plat) ==
    IF new_len <= Length(self.target)
    THEN LET r == Truncate(self.target, new_len, plat)
         IN  [res |-> r.res, self |-> [self EXCEPT !.target = r.self],
              calls |-> r.calls]
    ELSE [res |-> InvalidInputError(new_len, Length(self.target)), self |-> self,
          calls |-> <<>>]

\* <&mut T as Truncate>::truncate: (**self).truncate(new_len)
RefMutTruncate(self, new_len, plat) ==
    LET r == Truncate(self.target, new_len, plat)
    IN  [res |-> r.res, self |-> [self EXCEPT !.target = r.self], calls |-> r.calls]

\* Truncate::truncate, resolved on the receiver's type.
Truncate(self, new_len, plat) ==
    CASE self.kind = "file"   -> FileTruncate(self, new_len, plat)
      [] self.kind = "vec"    -> VecTruncate(self, new_len)
      [] self.kind = "slice"  -> SliceTruncate(self, new_len)
      [] self.kind = "cursor" -> CursorTruncate(self, new_len, plat)
      [] self.kind = "ref"    -> RefMutTruncate(self, new_len, plat)

(***************************************************************************)
(* Observations                                                            *)
(***************************************************************************)
\* The object's current length in bytes: self.len() of a buffer or view, the
\* size the OS reports for a file (metadata, seek(SeekFrom::End(0))).
Length(x) ==
    CASE x.kind = "file"   -> x.size
      [] x.kind = "vec"    -> Len(x.v)
      [] x.kind = "slice"  -> x.len
      [] x.kind = "cursor" -> Length(x.inner)
      [] x.kind = "ref"    -> Length(x.target)

\* The bytes a view shows.
ViewContent(st, view) == SubSeq(st, view.ptr + 1, view.ptr + view.len)

\* The object's bytes.
RECURSIVE Content(_, _)
Content(st, x) ==
    CASE x.kind = "file"   -> x.data
      [] x.kind = "vec"    -> x.v
      [] x.kind = "slice"  -> ViewContent(st, x)
      [] x.kind = "cursor" -> Content(st, x.inner)
      [] x.kind = "ref"    -> Content(st, x.target)

\* The representation at the bottom of the wrappers.
RECURSIVE Leaf(_)
Leaf(x) ==
    CASE x.kind = "cursor" -> Leaf(x.inner)
      [] x.kind = "ref"    -> Leaf(x.target)
      [] OTHER             -> x

\* The answers the platform can give during a truncate call on x: set_len is
\* reached only when x is, or wraps, a File; otherwise nothing is asked of it.
PlatformAnswers(x) == IF Leaf(x).kind = "file" THEN PlatformOutcomes ELSE {"Ok"}

\* A successful truncate of x sets its length: x is not a file whose platform
\* accepts the resize and changes nothing.
Resizes(x) == Leaf(x).kind = "file" => Leaf(x).resize # "none"

IsPrefix(s, t) == Len(s) <= Len(t) /\ s = SubSeq(t, 1, Len(s))

(***************************************************************************)
(* Construction                                                            *)
(***************************************************************************)
VecObjs == {[kind |-> "vec", v |-> s] : s \in Seqs(MaxLen)}

\* An open File.  A regular file reports the number of its bytes as its size.
RegularFiles ==
    {[kind |-> "file", data |-> s, size |-> Len(s), resize |-> "data"] :
        s \in Seqs(MaxLen)}

\* A kernel pseudo-file reports a size of its own, whatever bytes it reads (0
\* on procfs and tracefs, a fixed page size on sysfs, the last size set on
\* tracefs), and a resize does not touch its bytes.
PseudoFiles ==
    {[kind |-> "file", data |-> s, size |-> n, resize |-> e] :
        s \in Seqs(MaxLen), n \in Lengths, e \in ResizeEffects \ {"data"}}

FileObjs == RegularFiles \cup PseudoFiles

SliceObjs(st) ==
    {[kind |-> "slice", ptr |-> p, len |-> l] :
        <<p, l>> \in {q \in (0..Len(st)) \X (0..Len(st)) : q[1] + q[2] <= Len(st)}}

\* Cursor::new followed by set_position (any position, also past the end).
Cursors(S) == {[kind |-> "cursor", inner |-> x, pos |-> c] : x \in S, c \in Lengths}

\* &mut x
Refs(S) == {[kind |-> "ref", target |-> x] : x \in S}

\* Every representation: bare, Cursor<T>, &mut T, &mut Cursor<T>, &mut &mut T
\* and Cursor<&mut T>.
Objects(leaves) ==
    leaves \cup Cursors(leaves) \cup Refs(leaves)
           \cup Refs(Cursors(leaves) \cup Refs(leaves)) \cup Cursors(Refs(leaves))

NoCall == [op |-> "none", new_len |-> 0, pre |-> [kind |-> "none"],
           res |-> OkResult, calls |-> <<>>]

Init ==
    /\ \/ /\ storage = <<>>
          /\ obj \in Objects(VecObjs \cup FileObjs)
          /\ other = [kind |-> "slice", ptr |-> 0, len |-> 0]
       \/ /\ storage \in [1..MaxLen -> Bytes]
          /\ obj \in Objects(SliceObjs(storage))
          /\ other \in {[kind |-> "slice", ptr |-> 0, len |-> Len(storage)], Leaf(obj)}
    /\ orig = IF Leaf(obj).kind = "file" THEN <<>> ELSE Content(storage, obj)
    /\ last = NoCall
    /\ pc = "idle"

(***************************************************************************)
(* Operations: one truncate call on obj                                    *)
(***************************************************************************)
Call(op, new_len, r) ==
    /\ obj' = r.self
    /\ last' = [op |-> op, new_len |-> new_len, pre |-> obj,
                res |-> r.res, calls |-> r.calls]
    /\ UNCHANGED <<storage, other, orig, pc>>

TruncateFile ==
    /\ pc = "idle" /\ obj.kind = "file"
    /\ \E new_len \in Lengths, plat \in PlatformAnswers(obj) :
          Call("file", new_len, FileTruncate(obj, new_len, plat))

TruncateVec ==
    /\ pc = "idle" /\ obj.kind = "vec"
    /\ \E new_len \in Lengths : Call("vec", new_len, VecTruncate(obj, new_len))

TruncateSlice ==
    /\ pc = "idle" /\ obj.kind = "slice"
    /\ \E new_len \in Lengths : Call("slice", new_len, SliceTruncate(obj, new_len))

TruncateCursor ==
    /\ pc = "idle" /\ obj.kind = "cursor"
    /\ \E new_len \in Lengths, plat \in PlatformAnswers(obj) :
          Call("cursor", new_len, CursorTruncate(obj, new_len, plat))

TruncateRefMut ==
    /\ pc = "idle" /\ obj.kind = "ref"
    /\ \E new_len \in Lengths, plat \in PlatformAnswers(obj) :
          Call("ref", new_len, RefMutTruncate(obj, new_len, plat))

\* set_len with a size over the process's file size limit while SIGXFSZ has its
\* default disposition: the signal ends the process inside the platform call,
\* which does not return; the file is as it was.
SetLenKilled ==
    /\ pc = "idle" /\ Leaf(obj).kind = "file"
    /\ pc' = "killed"
    /\ UNCHANGED <<storage, other, obj, orig, last>>

Next ==
    \/ TruncateFile
    \/ TruncateVec
    \/ TruncateSlice
    \/ TruncateCursor
    \/ TruncateRefMut
    \/ SetLenKilled

Spec == Init /\ [][Next]_vars

(***************************************************************************)
(* Cursor<T>::truncate statement by statement                              *)
(***************************************************************************)
\* self.get_mut().truncate(new_len)?  -- on an error the call returns here.
CursorStepInner ==
    /\ pc = "idle" /\ obj.kind = "cursor"
    /\ \E new_len \in Lengths, plat \in PlatformAnswers(obj) :
          LET r == Truncate(obj.inner, new_len, plat)
          IN  /\ obj' = [obj EXCEPT !.inner = r.self]
              /\ last' = [op |-> "cursor", new_len |-> new_len, pre |-> obj,
                          res |-> r.res, calls |-> r.calls]
              /\ pc' = IF r.res.ok THEN "set_position" ELSE "idle"
    /\ UNCHANGED <<storage, other, orig>>

\* self.set_position(cmp::min(new_len as u64, self.position())); Ok(())
CursorStepSetPosition ==
    /\ pc = "set_position"
    /\ obj' = [obj EXCEPT !.pos = SetPosition(last.new_len, @)]
    /\ last' = [last EXCEPT !.res = OkResult]
    /\ pc' = "idle"
    /\ UNCHANGED <<storage, other, orig>>

NextSteps ==
    \/ TruncateFile
    \/ TruncateVec
    \/ TruncateSlice
    \/ CursorStepInner
    \/ CursorStepSetPosition
    \/ TruncateRefMut
    \/ SetLenKilled

SpecSteps == Init /\ [][NextSteps]_vars

(***************************************************************************)
(* Properties                                                              *)
(***************************************************************************)
PreLen == Length(last.pre)
PreContent == Content(storage, last.pre)
OnBufferOrView == last.op \in {"vec", "slice"}

\* C1: on a Vec<u8> or &[u8] of length L, truncate(new_len) with new_len <= L
\* succeeds and leaves exactly the first new_len bytes of the old content.
C1_ShrinkKeepsPrefix ==
    (OnBufferOrView /\ last.new_len <= PreLen) =>
        /\ last.res = OkResult
        /\ Content(storage, obj) = SubSeq(PreContent, 1, last.new_len)
        /\ Length(obj) = last.new_len

C1_Witness ==
    /\ OnBufferOrView
    /\ 0 < last.new_len /\ last.new_len < PreLen
    /\ last.res.ok

\* C2: on a Vec<u8> or &[u8] of length L, truncate(new_len) with new_len > L
\* returns an InvalidInput error and leaves the object exactly as it was.
C2_GrowRejected ==
    (OnBufferOrView /\ last.new_len > PreLen) =>
        /\ ~last.res.ok
        /\ last.res.kind = "InvalidInput"
        /\ obj = last.pre
        /\ Content(storage, obj) = PreContent

C2_Witness ==
    /\ OnBufferOrView
    /\ last.new_len > PreLen /\ PreLen > 0
    /\ ~last.res.ok

\* C3: after a successful truncate(new_len) on a Cursor<T> whose cursor was C, the
\* cursor is min(C, new_len): at most new_len, exactly new_len if C > new_len,
\* and C itself if C <= new_len -- whatever C was and whatever T is.
C3_CursorClamp ==
    (last.op = "cursor" /\ last.res.ok) =>
        /\ obj.pos <= last.new_len
        /\ (last.pre.pos > last.new_len => obj.pos = last.new_len)
        /\ (last.pre.pos <= last.new_len => obj.pos = last.pre.pos)

\* A cursor beyond the end of a file that the truncation grew, and still beyond
\* the new end.
C3_Witness ==
    /\ last.op = "cursor" /\ last.res.ok
    /\ Leaf(last.pre).kind = "file"
    /\ PreLen < last.new_len /\ last.new_len < last.pre.pos
    /\ Length(obj) = last.new_len
    /\ obj.pos = last.new_len

InnerResults == {Truncate(last.pre.inner, last.new_len, p).res : p \in PlatformOutcomes}

\* C4: when the inner truncate of a Cursor<T> fails, the cursor's truncate returns
\* that very error and neither the cursor nor the inner object has changed.
C4_CursorErrorPropagated ==
    (last.op = "cursor" /\ ~last.res.ok) =>
        /\ last.res \in InnerResults
        /\ (Leaf(last.pre).kind = "file" =>
                Len(last.calls) = 1 /\ last.res = last.calls[1].res)
        /\ (Leaf(last.pre).kind # "file" =>
                last.res = InvalidInputError(last.new_len, PreLen))
        /\ obj = last.pre

C4_Witness ==
    /\ last.op = "cursor" /\ ~last.res.ok
    /\ last.pre.pos > last.new_len
    /\ last.res.kind = "InvalidInput"
    /\ Leaf(last.pre).kind = "slice"

\* C5: truncate through &mut X gives the result, the error, the platform calls and
\* the resulting X that truncate on X itself gives from the same state.
C5_RefMutTransparent ==
    (last.op = "ref") =>
        \E p \in PlatformOutcomes :
            LET direct == Truncate(last.pre.target, last.new_len, p)
            IN  /\ last.res = direct.res
                /\ obj.target = direct.self
                /\ last.calls = direct.calls

\* A reference to a file, truncated to a greater length.
C5_Witness ==
    /\ last.op = "ref" /\ last.res.ok
    /\ last.pre.target.kind = "file"
    /\ last.new_len > PreLen
    /\ Length(obj) = last.new_len

ToCurrentLength == last.op # "none" /\ last.new_len = PreLen

\* C6 as stated: on every representation, truncate(new_len) with new_len equal
\* to the current length succeeds and changes nothing: not the content, not the
\* length and not a wrapper's cursor.
C6_Original ==
    ToCurrentLength => (last.res = OkResult /\ obj = last.pre)

\* No cursor of the object lies beyond n.
RECURSIVE CursorsWithin(_, _)
CursorsWithin(x, n) ==
    CASE x.kind = "cursor" -> x.pos <= n /\ CursorsWithin(x.inner, n)
      [] x.kind = "ref"    -> CursorsWithin(x.target, n)
      [] OTHER             -> TRUE

\* C6 amended: truncate to the current length never changes content or length;
\* it succeeds unless the object is, or wraps, a file, where it returns what the
\* platform's resize call returned; on success the object is unchanged if no
\* cursor lay beyond the length, and a cursor beyond it is moved back to it.
C6_TruncateToCurrentLength ==
    ToCurrentLength =>
        /\ Content(storage, obj) = PreContent
        /\ Length(obj) = PreLen
        /\ (Leaf(last.pre).kind # "file" => last.res = OkResult)
        /\ (Leaf(last.pre).kind = "file" =>
                Len(last.calls) = 1 /\ last.res = last.calls[1].res)
        /\ (~last.res.ok => obj = last.pre)
        /\ ((last.res.ok /\ CursorsWithin(last.pre, PreLen)) => obj = last.pre)
        /\ ((last.res.ok /\ last.op = "cursor" /\ last.pre.pos > PreLen) =>
                obj.pos = PreLen /\ obj.inner = last.pre.inner)

\* A cursor past the end of a buffer, truncated to the buffer's length.
C6_Witness ==
    /\ ToCurrentLength
    /\ last.op = "cursor" /\ last.res.ok
    /\ Leaf(last.pre).kind = "vec"
    /\ last.pre.pos > PreLen /\ PreLen > 0
    /\ obj.pos = PreLen

\* C7 as stated: File's truncate makes no shrink-only check: for every new_len it
\* calls the platform's resize once, with new_len, and returns what that call
\* returned; when the call succeeds and new_len is at most the size, the size
\* becomes new_len.
C7_Original ==
    (last.op = "file") =>
        /\ last.calls = <<[size |-> last.new_len, res |-> last.res]>>
        /\ (~last.res.ok => last.res = PlatformError(last.res.kind))
        /\ ((last.res.ok /\ last.new_len <= PreLen) => Length(obj) = last.new_len)

\* C7 amended: File's truncate makes no shrink-only check: for every new_len it
\* calls the platform's resize once, with new_len, and returns what that call
\* returned: an error is the platform's own, of whatever kind, never one made by
\* the wrapper.  What a successful call does to the file is the platform's doing:
\* a regular file with new_len at most its size gets size new_len and keeps its
\* first new_len bytes; a file that is not regular storage keeps its bytes, and
\* the size it reports becomes new_len or stays as it was.
C7_FileDelegates ==
    (last.op = "file") =>
        /\ last.calls = <<[size |-> last.new_len, res |-> last.res]>>
        /\ (~last.res.ok =>
                /\ last.res = PlatformError(last.res.kind)
                /\ last.res # InvalidInputError(last.new_len, PreLen)
                /\ obj = last.pre)
        /\ ((last.res.ok /\ last.pre.resize = "data" /\ last.new_len <= PreLen) =>
                /\ Length(obj) = last.new_len
                /\ obj.data = SubSeq(last.pre.data, 1, last.new_len))
        /\ ((last.res.ok /\ last.pre.resize # "data") =>
                /\ obj.data = last.pre.data
                /\ obj.resize = last.pre.resize
                /\ Length(obj) \in {last.new_len, PreLen}
                /\ (last.pre.resize = "size" => Length(obj) = last.new_len)
                /\ (last.pre.resize = "none" => obj = last.pre))

\* A regular file cut to less than its size, the platform call succeeding.
C7_Witness ==
    /\ last.op = "file" /\ last.res.ok
    /\ last.pre.resize = "data"
    /\ 0 < last.new_len /\ last.new_len < PreLen
    /\ Len(last.calls) = 1
    /\ Length(obj) = last.new_len
    /\ Len(obj.data) = last.new_len

HoldsView == Leaf(obj).kind = "slice"

\* C8: a truncate call on a view, successful or failed, changes neither the
\* bytes nor the length of the storage, nor the start, length or content of
\* another view over it; the truncated view keeps its start and its end only
\* moves inward.
C8_ViewFrame ==
    [][HoldsView =>
          /\ storage' = storage
          /\ other' = other
          /\ ViewContent(storage', other') = ViewContent(storage, other)
          /\ Leaf(obj').ptr = Leaf(obj).ptr
          /\ Leaf(obj').len <= Leaf(obj).len]_vars

\* Another view with the range the truncated view had keeps all of it.
C8_Witness ==
    /\ last.op = "slice" /\ last.res.ok
    /\ obj.len < last.pre.len
    /\ obj.ptr > 0
    /\ other = last.pre
    /\ ViewContent(storage, other) # ViewContent(storage, obj)

\* C9: over any sequence of truncate calls on a Vec<u8> or &[u8], accepted or
\* rejected, the length never increases from one state to the next and the
\* content stays a prefix of the initial content.
C9_LengthNeverGrows ==
    [][obj.kind \in {"vec", "slice"} =>
          /\ Length(obj') <= Length(obj)
          /\ IsPrefix(Content(storage', obj'), Content(storage, obj))
          /\ IsPrefix(Content(storage', obj'), orig)
          /\ orig' = orig]_vars

\* A rejected call after an earlier call shortened the object.
C9_Witness ==
    /\ OnBufferOrView /\ ~last.res.ok
    /\ last.new_len <= Len(orig)
    /\ Length(obj) < Len(orig)
    /\ obj = last.pre

\* C10 as stated: from the moment the inner truncate of a Cursor<T> has
\* succeeded, also before the call returns, the cursor is at most new_len.
C10_Original ==
    (last.op = "cursor" /\ last.res.ok) => obj.pos <= last.new_len

\* C10 amended: the inner truncate runs first and the cursor is written after it
\* and only if it succeeded: between the two steps the inner truncate has
\* taken effect and the cursor still holds its old value (which may exceed
\* new_len); once a successful call has returned the cursor is at most new_len;
\* in a call whose inner truncate failed the cursor is not written.
C10_CursorOrdering ==
    (last.op = "cursor") =>
        /\ (pc = "set_position" =>
                /\ last.res.ok
                /\ (Resizes(last.pre) => Length(obj) = last.new_len)
                /\ obj.pos = last.pre.pos)
        /\ ((pc # "set_position" /\ last.res.ok) =>
                /\ obj.pos <= last.new_len
                /\ obj.pos <= last.pre.pos)
        /\ (~last.res.ok => pc # "set_position" /\ obj.pos = last.pre.pos)

\* A returned call that moved the cursor back.
C10_Witness ==
    /\ last.op = "cursor" /\ pc = "idle" /\ last.res.ok
    /\ last.pre.pos > last.new_len
    /\ obj.pos = last.new_len
    /\ Length(obj) = last.new_len

====
